---------------------------- MODULE Spec2Model ----------------------------
(***************************************************************************)
(* syncortexGA: the domain model (models/timetable_model.py) and the hard  *)
(* constraint H1 (constraints/hard_constraints.py).                        *)
(*                                                                         *)
(* Objects are records holding the fields the code reads.  An Optional     *)
(* field is a sequence: <<>> is None and <<v>> is the value v.  Times are  *)
(* the "HH:MM" strings themselves, compared as the code compares them (by  *)
(* equality); Minutes gives their position on the clock, which only the    *)
(* statements about overlapping intervals use.                             *)
(***************************************************************************)
EXTENDS Naturals, Sequences, FiniteSets, TLC

VARIABLES
    sessions,             \* the ScheduledSession objects built so far, in list order
    raised,               \* "none", or the error the last constructor call raised
    pc,                   \* "build": objects are being constructed; "scan": H1 is
                          \* running; "done": H1 returned
    result,               \* the value check_h1_instructor_conflicts returned (pc = "done")
    fixed_pattern,        \* Optional: the last FixedSessionPattern constructed
    alternating_pattern,  \* Optional: the last AlternatingSessionPattern constructed
    lab_pattern,          \* Optional: the last LabSessionPattern constructed
    session_pattern,      \* Optional: the last SessionPattern constructed
    position,             \* pc = "scan": the list position the for loop is at
    seen_dict,            \* the keys of the local dictionary `seen` of the running call
    examined,             \* the list positions the running (or last) call's loop body ran on
    reference             \* Optional: a timetable and the verdict a caller kept for it

vars == <<sessions, raised, pc, result,
          fixed_pattern, alternating_pattern, lab_pattern, session_pattern,
          position, seen_dict, examined, reference>>

\* the state of a call that runs step by step, and what callers keep
scanVars == <<position, seen_dict, examined, reference>>

patternVars == <<fixed_pattern, alternating_pattern, lab_pattern, session_pattern>>

checkVars == <<sessions, pc, result>>

-----------------------------------------------------------------------------
(* Bounds of the model *)

\* longest timetable built under Spec
MaxSessions == 3

\* longest timetable built under SpecResources
MaxShared == 2

\* longest slots list handed to FixedSessionPattern
MaxSlots == 3

\* longest timetable built under SpecScan
MaxScan == 3

-----------------------------------------------------------------------------
(* Values *)

None == <<>>

Some(v) == <<v>>

\* Python truthiness of an Optional[BaseModel] field: None is falsy, a model
\* instance is truthy (BaseModel defines neither __bool__ nor __len__).
IsSet(opt) == opt # None

TimeSlot(day, start, end) == [day |-> day, start |-> start, end |-> end]

\* clock position of the time strings used below
Minutes(t) ==
    CASE t = "08:00" -> 480
      [] t = "09:00" -> 540
      [] t = "10:00" -> 600
      [] t = "11:00" -> 660

SlotA == TimeSlot("Saturday", "08:00", "10:00")
SlotB == TimeSlot("Saturday", "09:00", "11:00")
SlotC == TimeSlot("Saturday", "08:00", "11:00")
SlotD == TimeSlot("Sunday", "08:00", "10:00")

Slots == {SlotA, SlotB, SlotC, SlotD}

Instructor(id, available_slots) == [id |-> id, available_slots |-> available_slots]

\* Inst1 and Inst1b are two Instructor objects carrying the same id.
Inst1 == Instructor(1, <<SlotA, SlotB>>)
Inst1b == Instructor(1, <<SlotA, SlotC>>)
Inst2 == Instructor(2, <<SlotA, SlotD>>)
Inst3 == Instructor(3, <<SlotD, SlotA>>)

Instructors == {Inst1, Inst1b, Inst2, Inst3}

Room(id) == [id |-> id]

StudentGroup(id) == [id |-> id]

FixedSessionPattern(slots) == [slots |-> slots]

AlternatingSessionPattern(fixed_slot, alternating_slot, alternating_mode, paired_course_id) ==
    [fixed_slot |-> fixed_slot, alternating_slot |-> alternating_slot,
     alternating_mode |-> alternating_mode, paired_course_id |-> paired_course_id]

LabSessionPattern(slot) == [slot |-> slot]

SessionPattern(type, fixed, alternating, lab) ==
    [type |-> type, fixed_pattern |-> fixed,
     alternating_pattern |-> alternating, lab_pattern |-> lab]

Course(id, pattern) == [id |-> id, session_pattern |-> pattern]

\* the course of the tests' common_setup: a fixed pattern over two slots
CourseFixed ==
    Course(1, Some(SessionPattern("fixed", Some(FixedSessionPattern(<<SlotA, SlotB>>)),
                                  None, None)))

\* a course that carries no session pattern
CourseNone == Course(2, None)

ScheduledSession(course_id, group_id, instructor_id, room_id, slot, type) ==
    [course_id |-> course_id, group_id |-> group_id, instructor_id |-> instructor_id,
     room_id |-> room_id, slot |-> slot, type |-> type]

Timetable(ss) == [sessions |-> ss]


-----------------------------------------------------------------------------
(* models/timetable_model.py: the validators run by the constructors *)

\* A validator is the message of the ValueError it raises, or Accepted when it
\* returns the model.
Accepted == "none"

\* FixedSessionPattern.check_two_slots
check_two_slots(model) ==
    IF Len(model.slots) # 2
    THEN "FixedSessionPattern must have exactly 2 slots"
    ELSE Accepted

\* LabSessionPattern.check_single_slot: `not model.slot` is False for every
\* TimeSlot instance, and the field's type admits nothing else
check_single_slot(model) ==
    IF ~(model.slot \in Slots)
    THEN "LabSessionPattern must have exactly 1 slot"
    ELSE Accepted

\* SessionPattern.validate_only_one_pattern
validate_only_one_pattern(model) ==
    IF model.type = "fixed"
    THEN IF ~IsSet(model.fixed_pattern) \/ IsSet(model.alternating_pattern)
         THEN "For type='fixed', only fixed_pattern must be set"
         ELSE Accepted
    ELSE IF model.type = "alternating"
    THEN IF ~IsSet(model.alternating_pattern) \/ IsSet(model.fixed_pattern)
         THEN "For type='alternating', only alternating_pattern must be set"
         ELSE Accepted
    ELSE IF model.type = "lab"
    THEN IF \/ ~IsSet(model.lab_pattern)
            \/ IsSet(model.fixed_pattern)
            \/ IsSet(model.alternating_pattern)
         THEN "For type='lab', only lab_pattern must be set"
         ELSE Accepted
    ELSE Accepted

\* a plausible slip in validate_slot: the theory branch is missing
validate_slot_LabOnly(model) ==
    IF model.type = "lab" /\ ~IsSet(model.course_id.session_pattern)
    THEN "Lab sessions must have a lab session pattern defined"
    ELSE IF model.type \notin {"theory", "lab"}
    THEN "Session type must be either 'theory' or 'lab'"
    ELSE Accepted

\* ScheduledSession.validate_slot
validate_slot(model) ==
    IF model.type = "lab" /\ ~IsSet(model.course_id.session_pattern)
    THEN "Lab sessions must have a lab session pattern defined"
    ELSE IF model.type = "theory" /\ ~IsSet(model.course_id.session_pattern)
    THEN "Theory sessions must have a session pattern defined"
    ELSE IF model.type \notin {"theory", "lab"}
    THEN "Session type must be either 'theory' or 'lab'"
    ELSE Accepted

\* the error of a field whose value is outside its annotated type
TypeError == "type error"

\* the Literal annotations of the type fields, checked before the validators
SessionTypeLiteral == {"theory", "lab"}

PatternTypeLiteral == {"fixed", "alternating", "lab"}

-----------------------------------------------------------------------------
(* constraints/hard_constraints.py *)

\* `slot in slots` on a list of TimeSlot: some element equals slot, field by field
SlotIn(slot, slots) == \E k \in DOMAIN slots : slots[k] = slot

\* a plausible slip in the key: the day is left out
Key_NoDay(instructor, slot) == <<instructor.id, slot.start, slot.end>>

\* a plausible slip in the key: the instructor is left out, so that a slot is
\* taken globally
Key_NoInstructor(instructor, slot) == <<slot.day, slot.start, slot.end>>

\* the key built for the seen dictionary
Key(instructor, slot) == <<instructor.id, slot.day, slot.start, slot.end>>

\* intervals on the same day that share some time
Overlap(s, t) ==
    /\ s.day = t.day
    /\ Minutes(s.start) < Minutes(t.end)
    /\ Minutes(t.start) < Minutes(s.end)

\* the slots a course's fixed pattern declares ({} when it has none)
DeclaredSlots(course) ==
    IF IsSet(course.session_pattern) /\ IsSet(course.session_pattern[1].fixed_pattern)
    THEN LET slots == course.session_pattern[1].fixed_pattern[1].slots
         IN  {slots[k] : k \in DOMAIN slots}
    ELSE {}

\* plausible variants of the loop body
\* - step 2 is missing: a repeated key is not noticed
ScanStep_NoConflict(session, seen) ==
    LET instructor == session.instructor_id
        slot == session.slot
    IN  IF ~SlotIn(slot, instructor.available_slots)
        THEN [returned |-> TRUE, seen |-> seen]
        ELSE [returned |-> FALSE, seen |-> seen \cup {Key(instructor, slot)}]

\* - step 1 is missing: availability is not looked at
ScanStep_NoAvailability(session, seen) ==
    LET key == Key(session.instructor_id, session.slot)
    IN  IF key \in seen
        THEN [returned |-> TRUE, seen |-> seen]
        ELSE [returned |-> FALSE, seen |-> seen \cup {key}]

\* - the dictionary is replaced, not extended: only the last key is remembered
ScanStep_LastOnly(session, seen) ==
    LET instructor == session.instructor_id
        slot == session.slot
    IN  IF ~SlotIn(slot, instructor.available_slots)
        THEN [returned |-> TRUE, seen |-> seen]
        ELSE LET key == Key(instructor, slot)
             IN  IF key \in seen
                 THEN [returned |-> TRUE, seen |-> seen]
                 ELSE [returned |-> FALSE, seen |-> {key}]

\* - a conflict is an overlap of intervals, not an equal slot
ScanStep_Overlap(session, seen) ==
    LET instructor == session.instructor_id
        slot == session.slot
    IN  IF ~SlotIn(slot, instructor.available_slots)
        THEN [returned |-> TRUE, seen |-> seen]
        ELSE LET key == Key(instructor, slot)
             IN  IF \E k \in seen :
                       /\ k[1] = key[1]
                       /\ Overlap(TimeSlot(k[2], k[3], k[4]), slot)
                 THEN [returned |-> TRUE, seen |-> seen]
                 ELSE [returned |-> FALSE, seen |-> seen \cup {key}]

\* - rooms and groups are keyed like instructors
ScanStep_Resources(session, seen) ==
    LET instructor == session.instructor_id
        slot == session.slot
    IN  IF ~SlotIn(slot, instructor.available_slots)
        THEN [returned |-> TRUE, seen |-> seen]
        ELSE LET keys == {<<"instructor", instructor.id, slot.day, slot.start, slot.end>>,
                          <<"room", session.room_id.id, slot.day, slot.start, slot.end>>,
                          <<"group", session.group_id.id, slot.day, slot.start, slot.end>>}
             IN  IF keys \cap seen # {}
                 THEN [returned |-> TRUE, seen |-> seen]
                 ELSE [returned |-> FALSE, seen |-> seen \cup keys]

\* - a slot outside the course's fixed pattern is refused
ScanStep_Pattern(session, seen) ==
    LET instructor == session.instructor_id
        slot == session.slot
    IN  IF \/ ~SlotIn(slot, instructor.available_slots)
           \/ slot \notin DeclaredSlots(session.course_id)
        THEN [returned |-> TRUE, seen |-> seen]
        ELSE LET key == Key(instructor, slot)
             IN  IF key \in seen
                 THEN [returned |-> TRUE, seen |-> seen]
                 ELSE [returned |-> FALSE, seen |-> seen \cup {key}]

\* One pass of the loop body over `session`.  seen is the set of keys of the
\* dictionary (every value stored is True).  returned says that the body
\* executed `return False`.
ScanStep(session, seen) ==
    LET instructor == session.instructor_id
        slot == session.slot
    IN  IF ~SlotIn(slot, instructor.available_slots)
        THEN [returned |-> TRUE, seen |-> seen]
        ELSE LET key == Key(instructor, slot)
             IN  IF key \in seen
                 THEN [returned |-> TRUE, seen |-> seen]
                 ELSE [returned |-> FALSE, seen |-> seen \cup {key}]

RECURSIVE Scan(_, _, _)
\* the for loop from position i on, and the final `return True`
Scan(ss, i, seen) ==
    IF i > Len(ss)
    THEN TRUE
    ELSE LET r == ScanStep(ss[i], seen)
         IN  IF r.returned THEN FALSE ELSE Scan(ss, i + 1, r.seen)

check_h1_instructor_conflicts(timetable) == Scan(timetable.sessions, 1, {})

-----------------------------------------------------------------------------
(* Operations *)

\* ScheduledSession(...): the Literal check on type, then validate_slot.  A
\* rejected call raises and builds nothing; an accepted session joins the
\* list the timetable is made of.
NewScheduledSession(course_id, group_id, instructor_id, room_id, slot, type) ==
    /\ pc = "build"
    /\ LET model == ScheduledSession(course_id, group_id, instructor_id, room_id, slot, type)
           error == IF type \notin SessionTypeLiteral THEN TypeError
                    ELSE validate_slot(model)
       IN  /\ raised' = error
           /\ sessions' = IF error = Accepted THEN Append(sessions, model) ELSE sessions
    /\ UNCHANGED <<pc, result, patternVars, scanVars>>

\* Timetable(sessions=sessions) and the call check_h1_instructor_conflicts(timetable)
CheckTimetable ==
    /\ pc = "build"
    /\ pc' = "done"
    /\ result' = check_h1_instructor_conflicts(Timetable(sessions))
    /\ raised' = Accepted
    /\ UNCHANGED <<sessions, patternVars, scanVars>>

\* FixedSessionPattern(slots=slots)
NewFixedSessionPattern(slots) ==
    /\ pc = "build"
    /\ LET model == FixedSessionPattern(slots)
           error == check_two_slots(model)
       IN  /\ raised' = error
           /\ fixed_pattern' = IF error = Accepted THEN Some(model) ELSE fixed_pattern
    /\ UNCHANGED <<checkVars, scanVars, alternating_pattern, lab_pattern, session_pattern>>

\* AlternatingSessionPattern(...): the field types are its only checks
NewAlternatingSessionPattern(fixed_slot, alternating_slot, alternating_mode, paired_course_id) ==
    /\ pc = "build"
    /\ LET model == AlternatingSessionPattern(fixed_slot, alternating_slot,
                                              alternating_mode, paired_course_id)
           error == IF alternating_mode \notin {"odd", "even"} THEN TypeError ELSE Accepted
       IN  /\ raised' = error
           /\ alternating_pattern' =
                  IF error = Accepted THEN Some(model) ELSE alternating_pattern
    /\ UNCHANGED <<checkVars, scanVars, fixed_pattern, lab_pattern, session_pattern>>

\* LabSessionPattern(slot=slot); slot is Optional here: slot=None fails the
\* field's type check
NewLabSessionPattern(slot) ==
    /\ pc = "build"
    /\ LET error == IF ~IsSet(slot) THEN TypeError
                    ELSE check_single_slot(LabSessionPattern(slot[1]))
       IN  /\ raised' = error
           /\ lab_pattern' =
                  IF error = Accepted THEN Some(LabSessionPattern(slot[1])) ELSE lab_pattern
    /\ UNCHANGED <<checkVars, scanVars, fixed_pattern, alternating_pattern, session_pattern>>

\* SessionPattern(type=..., fixed_pattern=..., alternating_pattern=..., lab_pattern=...)
NewSessionPattern(type, fixed, alternating, lab) ==
    /\ pc = "build"
    /\ LET model == SessionPattern(type, fixed, alternating, lab)
           error == IF type \notin PatternTypeLiteral THEN TypeError
                    ELSE validate_only_one_pattern(model)
       IN  /\ raised' = error
           /\ session_pattern' = IF error = Accepted THEN Some(model) ELSE session_pattern
    /\ UNCHANGED <<checkVars, scanVars, fixed_pattern, alternating_pattern, lab_pattern>>

-----------------------------------------------------------------------------
(* check_h1_instructor_conflicts, one loop iteration at a time *)

\* a plausible slip: the dictionary outlives the call (a module-level mapping)
SeenAtEntry_Global == seen_dict

\* `seen = {}`: the dictionary a call starts with
SeenAtEntry == {}

\* a plausible slip: the loop stops one element early
HasNext_SkipLast(ss, i) == i < Len(ss)

\* the for loop has an element left at list position i
HasNext(ss, i) == i <= Len(ss)

\* Timetable(sessions=sessions) and entry into check_h1_instructor_conflicts
EnterCheck ==
    /\ pc = "build"
    /\ pc' = "scan"
    /\ seen_dict' = SeenAtEntry
    /\ position' = 1
    /\ examined' = <<>>
    /\ raised' = Accepted
    /\ UNCHANGED <<sessions, result, reference, patternVars>>

\* a second call on the timetable object of the call that just returned
EnterCheckAgain ==
    /\ pc = "done"
    /\ pc' = "scan"
    /\ seen_dict' = SeenAtEntry
    /\ position' = 1
    /\ examined' = <<>>
    /\ UNCHANGED <<sessions, result, raised, reference, patternVars>>

\* one iteration of the for loop: the body runs on the session at position,
\* and either returns False or stores the key and moves on
LoopIteration ==
    /\ pc = "scan"
    /\ HasNext(sessions, position)
    /\ LET r == ScanStep(sessions[position], seen_dict)
       IN  /\ examined' = Append(examined, position)
           /\ seen_dict' = r.seen
           /\ IF r.returned
              THEN /\ result' = FALSE
                   /\ pc' = "done"
                   /\ position' = position
              ELSE /\ position' = position + 1
                   /\ UNCHANGED <<pc, result>>
    /\ UNCHANGED <<sessions, raised, reference, patternVars>>

\* the loop is exhausted: `return True`
ReturnTrue ==
    /\ pc = "scan"
    /\ ~HasNext(sessions, position)
    /\ result' = TRUE
    /\ pc' = "done"
    /\ UNCHANGED <<sessions, raised, position, seen_dict, examined, reference, patternVars>>

\* the caller keeps the timetable and the verdict it got for it
KeepVerdict ==
    /\ pc = "done"
    /\ reference # Some([sessions |-> sessions, verdict |-> result])
    /\ reference' = Some([sessions |-> sessions, verdict |-> result])
    /\ UNCHANGED <<sessions, raised, pc, result, position, seen_dict, examined, patternVars>>

\* the caller turns to another candidate: a new, empty sessions list.  The
\* returned value and the loop's position are dropped with the call; what the
\* dictionary held is kept, so that a later call could show it.
NextCandidate ==
    /\ pc = "done"
    /\ pc' = "build"
    /\ sessions' = <<>>
    /\ result' = FALSE
    /\ position' = 0
    /\ examined' = <<>>
    /\ UNCHANGED <<raised, seen_dict, reference, patternVars>>

-----------------------------------------------------------------------------
(* Specifications *)

Init ==
    /\ sessions = <<>>
    /\ raised = Accepted
    /\ pc = "build"
    /\ result = FALSE
    /\ fixed_pattern = None
    /\ alternating_pattern = None
    /\ lab_pattern = None
    /\ session_pattern = None
    /\ position = 0
    /\ seen_dict = {}
    /\ examined = <<>>
    /\ reference = None

Room1 == Room(1)

Group1 == StudentGroup(1)

\* Spec: timetables of one course, room and group, over every instructor and slot
Next ==
    \/ /\ Len(sessions) < MaxSessions
       /\ \E instructor \in Instructors, slot \in Slots :
             NewScheduledSession(CourseFixed, Group1, instructor, Room1, slot, "theory")
    \/ CheckTimetable

Spec == Init /\ [][Next]_vars

\* SpecResources: timetables over two rooms, two groups, both courses and
\* every session type, of two instructors and two slots
Rooms == {Room(1), Room(2)}

Groups == {StudentGroup(1), StudentGroup(2)}

NextResources ==
    \/ /\ Len(sessions) < MaxShared
       /\ \E course \in {CourseFixed, CourseNone}, group \in Groups,
             instructor \in {Inst1, Inst2}, room \in Rooms, slot \in {SlotA, SlotD},
             type \in {"theory", "lab", "exam"} :
             NewScheduledSession(course, group, instructor, room, slot, type)
    \/ CheckTimetable

SpecResources == Init /\ [][NextResources]_vars

\* SpecPattern: construction of the session patterns
PatternSlots == {SlotA, SlotB}

SlotLists == UNION {[1..n -> PatternSlots] : n \in 0..MaxSlots}

Opt(v) == {None, v}

NextPattern ==
    \/ \E slots \in SlotLists : NewFixedSessionPattern(slots)
    \/ \E f \in PatternSlots, a \in PatternSlots, mode \in {"odd", "even", "weekly"} :
          NewAlternatingSessionPattern(f, a, mode, 2)
    \/ \E slot \in {None} \cup {Some(s) : s \in PatternSlots} : NewLabSessionPattern(slot)
    \/ \E type \in {"fixed", "alternating", "lab", "random"},
          f \in Opt(fixed_pattern), a \in Opt(alternating_pattern), l \in Opt(lab_pattern) :
          NewSessionPattern(type, f, a, l)

SpecPattern == Init /\ [][NextPattern]_vars

\* SpecScan: H1 runs one loop iteration at a time, again and again, on
\* timetables of two instructors and two slots
NextScan ==
    \/ /\ Len(sessions) < MaxScan
       /\ \E instructor \in {Inst1, Inst2}, slot \in {SlotA, SlotD} :
             NewScheduledSession(CourseFixed, Group1, instructor, Room1, slot, "theory")
    \/ EnterCheck
    \/ EnterCheckAgain
    \/ LoopIteration
    \/ ReturnTrue
    \/ KeepVerdict
    \/ NextCandidate

\* a call that has been entered runs to its return
SpecScan == Init /\ [][NextScan]_vars /\ WF_vars(LoopIteration \/ ReturnTrue)

-----------------------------------------------------------------------------
(* Vocabulary of the properties *)

\* check_h1_instructor_conflicts has returned: result is its verdict on sessions
Returned == pc = "done"

Positions == DOMAIN sessions

\* the session's slot is one of its instructor's available_slots
Available(s) == SlotIn(s.slot, s.instructor_id.available_slots)

AllAvailable == \A i \in Positions : Available(sessions[i])

SameSlot(s, t) ==
    /\ s.slot.day = t.slot.day
    /\ s.slot.start = t.slot.start
    /\ s.slot.end = t.slot.end

\* two positions hold sessions of one instructor id in one slot
DoubleBooked(i, j) ==
    /\ i # j
    /\ sessions[i].instructor_id.id = sessions[j].instructor_id.id
    /\ SameSlot(sessions[i], sessions[j])

NoDoubleBooking == \A i, j \in Positions : ~DoubleBooked(i, j)

\* two positions hold sessions in one slot that share their room or their group
SharedResource(i, j) ==
    /\ i # j
    /\ SameSlot(sessions[i], sessions[j])
    /\ \/ sessions[i].room_id.id = sessions[j].room_id.id
       \/ sessions[i].group_id.id = sessions[j].group_id.id

\* two positions hold sessions of one instructor id whose slots differ and overlap
OverlapBooked(i, j) ==
    /\ i # j
    /\ sessions[i].instructor_id.id = sessions[j].instructor_id.id
    /\ sessions[i].slot # sessions[j].slot
    /\ Overlap(sessions[i].slot, sessions[j].slot)

\* the slots the timetable's sessions of `course` use
UsedSlots(course) == {sessions[i].slot : i \in {k \in Positions : sessions[k].course_id = course}}

\* the course has sessions, and they use only one of its two declared slots
OnlyOneDeclared(course) ==
    /\ UsedSlots(course) # {}
    /\ Cardinality(UsedSlots(course) \cap DeclaredSlots(course)) = 1

\* the course has a session in a slot it does not declare
UndeclaredSlot(course) == UsedSlots(course) \ DeclaredSlots(course) # {}

\* the sessions list rearranged by the permutation p of its positions
Permuted(p) == [i \in Positions |-> sessions[p[i]]]

-----------------------------------------------------------------------------
(* Properties *)

\* C1: a timetable holding, at two different positions, sessions of the same
\* instructor id in the identical (day, start, end) slot is rejected: H1
\* returns False, also when the two are the same session value.
C1_DoubleBookingRejected ==
    (Returned /\ \E i, j \in Positions : DoubleBooked(i, j)) => result = FALSE

\* C1 happens: the same session value twice, every session available
C1_Witness ==
    /\ Returned
    /\ AllAvailable
    /\ \E i, j \in Positions : i # j /\ sessions[i] = sessions[j]
    /\ result = FALSE

\* C2: a timetable holding a session whose slot is not in its instructor's
\* available_slots is rejected, wherever the session stands and whether or
\* not any two sessions conflict.
C2_UnavailableRejected ==
    (Returned /\ \E i \in Positions : ~Available(sessions[i])) => result = FALSE

\* C2 happens: the only offending session is the last of at least two
C2_Witness ==
    /\ Returned
    /\ Len(sessions) >= 2
    /\ NoDoubleBooking
    /\ \A i \in Positions : Available(sessions[i]) <=> i # Len(sessions)
    /\ result = FALSE

\* C3: H1 returns True exactly when every session is available and no two
\* positions are double-booked; the empty timetable is accepted.
C3_VerdictCharacterised ==
    Returned => (result = TRUE <=> (AllAvailable /\ NoDoubleBooking))

\* C3 happens: an accepted timetable of one instructor id in several slots
C3_Witness ==
    /\ Returned
    /\ Len(sessions) >= 2
    /\ \A i, j \in Positions : sessions[i].instructor_id.id = sessions[j].instructor_id.id
    /\ AllAvailable /\ NoDoubleBooking
    /\ result = TRUE

\* C4: conflicts are per instructor: sessions of pairwise different
\* instructor ids, each available, are accepted even in one common slot.
C4_PerInstructor ==
    ( /\ Returned
      /\ AllAvailable
      /\ \A i, j \in Positions :
            i # j => sessions[i].instructor_id.id # sessions[j].instructor_id.id )
    => result = TRUE

\* C4 happens: three instructors in the very same slot, room and group
C4_Witness ==
    /\ Returned
    /\ Len(sessions) >= 3
    /\ \A i, j \in Positions :
          /\ i # j => sessions[i].instructor_id.id # sessions[j].instructor_id.id
          /\ SameSlot(sessions[i], sessions[j])
          /\ sessions[i].room_id = sessions[j].room_id
          /\ sessions[i].group_id = sessions[j].group_id
    /\ result = TRUE

\* C5 as stated: two sessions sharing a room (H2) or a group (H3) in the
\* identical slot make validation fail.
C5_SharedResourceRejected ==
    (Returned /\ \E i, j \in Positions : SharedResource(i, j)) => result = FALSE

\* C5 amended: rooms and groups are not looked at; a timetable in which two
\* sessions share a room or a group in the identical slot is accepted when
\* every session is available and no instructor is double-booked.
C5_SharedResourceIgnored ==
    ( /\ Returned
      /\ \E i, j \in Positions : SharedResource(i, j)
      /\ AllAvailable /\ NoDoubleBooking )
    => result = TRUE

\* C5 amended happens: two instructors in one slot, one room and one group
C5_Witness ==
    /\ Returned
    /\ \E i, j \in Positions :
          /\ SharedResource(i, j)
          /\ sessions[i].room_id = sessions[j].room_id
          /\ sessions[i].group_id = sessions[j].group_id
          /\ sessions[i].instructor_id.id # sessions[j].instructor_id.id
    /\ result = TRUE

\* C6: the verdict does not depend on the order of the sessions: H1 on any
\* permutation of the list returns what it returned on the list.
C6_OrderIndependent ==
    Returned =>
        \A p \in Permutations(Positions) :
            check_h1_instructor_conflicts(Timetable(Permuted(p))) = result

\* C6 happens: the scan stops at position 2 on a repeated key, and a
\* rearrangement stops at position 1 on availability
C6_Witness ==
    /\ Returned
    /\ Len(sessions) = 3
    /\ Available(sessions[1]) /\ Available(sessions[2]) /\ ~Available(sessions[3])
    /\ DoubleBooked(1, 2)
    /\ result = FALSE

\* C7: slots are compared by equality, not by overlap: sessions of one
\* instructor whose slots differ but overlap are no conflict, and the
\* timetable is accepted when nothing else is violated.
C7_OverlapNotFlagged ==
    ( /\ Returned
      /\ \E i, j \in Positions : OverlapBooked(i, j)
      /\ AllAvailable /\ NoDoubleBooking )
    => result = TRUE

\* C7 happens: one Instructor object in two overlapping slots that differ in
\* start and in end
C7_Witness ==
    /\ Returned
    /\ \E i, j \in Positions :
          /\ OverlapBooked(i, j)
          /\ sessions[i].instructor_id = sessions[j].instructor_id
          /\ sessions[i].slot.start # sessions[j].slot.start
          /\ sessions[i].slot.end # sessions[j].slot.end
    /\ result = TRUE

\* C8 as stated: a Fixed-pattern course whose sessions use only one of its
\* two declared slots, or a slot it does not declare, makes validation fail.
C8_PatternEnforced ==
    (Returned /\ (OnlyOneDeclared(CourseFixed) \/ UndeclaredSlot(CourseFixed)))
    => result = FALSE

\* C8 amended: the course's pattern is not looked at; such a timetable is
\* accepted when every session is available and no instructor is
\* double-booked.
C8_PatternIgnored ==
    ( /\ Returned
      /\ OnlyOneDeclared(CourseFixed) \/ UndeclaredSlot(CourseFixed)
      /\ AllAvailable /\ NoDoubleBooking )
    => result = TRUE

\* C8 amended happens: one declared slot and one undeclared slot are used
C8_Witness ==
    /\ Returned
    /\ OnlyOneDeclared(CourseFixed) /\ UndeclaredSlot(CourseFixed)
    /\ result = TRUE

\* C9: an accepted SessionPattern has exactly the variant of its type tag
\* populated, and the two other pattern fields unset.
C9_ExactlyOneVariant ==
    IsSet(session_pattern) =>
        LET m == session_pattern[1]
        IN  /\ IsSet(m.fixed_pattern) <=> m.type = "fixed"
            /\ IsSet(m.alternating_pattern) <=> m.type = "alternating"
            /\ IsSet(m.lab_pattern) <=> m.type = "lab"

\* C10: a session whose course carries no session pattern is never built:
\* every session of the list, and so of every timetable handed to H1, has a
\* course with a pattern and a type of theory or lab, and a constructor call
\* that raises leaves the list as it was.
C10_PatternlessRejected ==
    [][ /\ \A i \in DOMAIN sessions' :
              /\ IsSet(sessions'[i].course_id.session_pattern)
              /\ sessions'[i].type \in {"theory", "lab"}
        /\ raised' # Accepted => sessions' = sessions /\ pc' = "build" ]_vars

\* C10 happens: a theory session of a patternless course was refused after
\* a session had been built
C10_Witness ==
    /\ raised = "Theory sessions must have a session pattern defined"
    /\ Len(sessions) >= 1

\* the keys the loop body stores for the list positions before position n
KeysBefore(n) ==
    {Key(sessions[k].instructor_id, sessions[k].slot) : k \in {j \in Positions : j < n}}

\* the session at list position k breaks H1 given the sessions before it: its
\* slot is unavailable, or an earlier session has its instructor id and slot
Offends(k) ==
    \/ ~Available(sessions[k])
    \/ \E j \in Positions : j < k /\ DoubleBooked(j, k)

\* a caller kept a verdict for a timetable equal to the current one
KeptForThis == IsSet(reference) /\ reference[1].sessions = sessions

\* what C11 says of a state: a call on a timetable whose verdict was kept
\* returns that verdict, and the dictionary of a running call holds the keys
\* of the sessions this call has passed, and nothing of an earlier call
C11_NoHiddenState ==
    /\ (Returned /\ KeptForThis) => result = reference[1].verdict
    /\ pc = "scan" => seen_dict = KeysBefore(position)

\* C11: calling H1 again on the same timetable, at once or after calls on
\* other timetables, yields the verdict of the first call; each call starts
\* from an empty seen dictionary, and no step of a call changes the sessions
\* list.
C11_Idempotent ==
    [][ /\ C11_NoHiddenState'
        /\ (pc = "scan" \/ pc' = "scan") => sessions' = sessions ]_vars

\* C11 happens: a later call on a timetable of several sessions whose verdict
\* True was kept has passed every session and is about to return
C11_Witness ==
    /\ pc = "scan"
    /\ KeptForThis
    /\ reference[1].verdict = TRUE
    /\ Len(sessions) >= 2
    /\ position = Len(sessions) + 1

\* C12: the scan runs the loop body on the list positions 1, 2, ... in order,
\* each at most once; while it runs it can take its next step; it ends with
\* a boolean and no error; False is returned at the first offending position
\* of the list, and True only after every position was examined.
C12_ScanVerdict ==
    /\ \A k \in DOMAIN examined : examined[k] = k
    /\ Len(examined) <= Len(sessions)
    /\ pc = "scan" =>
          /\ position = Len(examined) + 1
          /\ \A k \in DOMAIN examined : ~Offends(k)
          /\ ENABLED (LoopIteration \/ ReturnTrue)
    /\ Returned =>
          /\ raised = Accepted
          /\ result \in BOOLEAN
          /\ result = FALSE =>
                /\ examined # <<>>
                /\ Offends(Len(examined))
                /\ \A k \in DOMAIN examined : k < Len(examined) => ~Offends(k)
          /\ result = TRUE =>
                /\ Len(examined) = Len(sessions)
                /\ \A k \in Positions : ~Offends(k)

\* C12 happens: the scan stopped at position 2 of 3 with False, and the
\* session it never examined offends too
C12_Witness ==
    /\ Returned
    /\ Len(sessions) = 3
    /\ examined = <<1, 2>>
    /\ Offends(3)
    /\ result = FALSE

=============================================================================
